---- MODULE Spec2Model ----
(***************************************************************************)
(* PDF417 decoded-bit-stream parser (src/pdf417/PDFDecodedBitStreamParser). *)
(* One call of DecodedBitStreamParser::Decode is modelled as a state        *)
(* machine: the dispatcher loop and every loop of the sub-decoders advance  *)
(* one iteration per action.  Text is a sequence of character codes; a      *)
(* BigInteger is a little-endian sequence of decimal digits; the C++ long   *)
(* used by ByteCompaction is a little-endian sequence of eight bytes (LP64).*)
(* Indices into the codeword vector are the 0-based indices of the source.  *)
(***************************************************************************)
EXTENDS Integers, Sequences, FiniteSets, TLC

\* ------------------------------------------------------------ constants
TEXT_COMPACTION_MODE_LATCH == 900
BYTE_COMPACTION_MODE_LATCH == 901
NUMERIC_COMPACTION_MODE_LATCH == 902
BYTE_COMPACTION_MODE_LATCH_6 == 924
ECI_USER_DEFINED == 925
ECI_GENERAL_PURPOSE == 926
ECI_CHARSET == 927
BEGIN_MACRO_PDF417_CONTROL_BLOCK == 928
BEGIN_MACRO_PDF417_OPTIONAL_FIELD == 923
MACRO_PDF417_TERMINATOR == 922
MODE_SHIFT_TO_BYTE_COMPACTION_MODE == 913
MAX_NUMERIC_CODEWORDS == 15
NUMBER_OF_SEQUENCE_CODEWORDS == 2

PL == 25
LL == 27
AS == 27
ML == 28
AL == 28
PS == 29
PAL == 29

PUNCT_CHARS ==
  << 59, 60, 62, 64, 91, 92, 93, 95, 96, 126, 33,
     13, 9, 44, 58, 10, 45, 46, 36, 47, 34, 124, 42,
     40, 41, 63, 123, 125, 39 >>

MIXED_CHARS ==
  << 48, 49, 50, 51, 52, 53, 54, 55, 56, 57, 38,
     13, 9, 44, 58, 35, 45, 46, 36, 47, 43, 37, 42,
     61, 94 >>

\* CharacterSet::ISO8859_1, named by its ECI value
DEFAULT_ENCODING == 3

\* ------------------------------------------------------------ BigInteger
\* little-endian decimal digits, no most-significant zero; zero is << >>
RECURSIVE BigAddC(_, _, _, _)
BigAddC(a, b, k, carry) ==
  IF k > Len(a) /\ k > Len(b)
  THEN IF carry = 0 THEN << >> ELSE << carry >>
  ELSE LET s == (IF k <= Len(a) THEN a[k] ELSE 0) + (IF k <= Len(b) THEN b[k] ELSE 0) + carry
       IN  << s % 10 >> \o BigAddC(a, b, k + 1, s \div 10)

\* BigInteger + BigInteger (each operand is evaluated once)
BigAdd(a, b) == CHOOSE r \in { BigAddC(x, y, 1, 0) : x \in { a }, y \in { b } } : TRUE

\* the digits of a * n + carry from digit k on
RECURSIVE BigMulIntC(_, _, _, _)
BigMulIntC(a, n, k, carry) ==
  IF k > Len(a)
  THEN IF carry = 0 THEN << >>
       ELSE << carry % 10 >> \o BigMulIntC(a, n, k, carry \div 10)
  ELSE LET p == a[k] * n + carry
       IN  << p % 10 >> \o BigMulIntC(a, n, k + 1, p \div 10)

\* BigInteger * int (each operand is evaluated once)
BigMulInt(a, n) ==
  CHOOSE r \in { IF m = 0 THEN << >> ELSE BigMulIntC(x, m, 1, 0) : x \in { a }, m \in { n } } : TRUE

\* a times the digits of b from digit k on
RECURSIVE BigMultiplyAt(_, _, _)
BigMultiplyAt(a, b, k) ==
  IF a = << >> \/ k > Len(b) THEN << >>
  ELSE BigAdd(BigMulInt(a, b[k]),
              CHOOSE r \in { IF rest = << >> THEN rest ELSE << 0 >> \o rest :
                               rest \in { BigMultiplyAt(a, b, k + 1) } } : TRUE)

BigMultiply(a, b) ==
  CHOOSE r \in { BigMultiplyAt(x, y, 1) : x \in { a }, y \in { b } } : TRUE

RECURSIVE BigFromInt(_)
BigFromInt(n) == IF n = 0 THEN << >> ELSE << n % 10 >> \o BigFromInt(n \div 10)

\* decimal rendering, most significant digit first, as character codes
BigToString(a) ==
  CHOOSE r \in { IF x = << >> THEN << 48 >> ELSE [i \in 1..Len(x) |-> 48 + x[Len(x) + 1 - i]] :
                   x \in { a } } : TRUE

RECURSIVE EXP900(_)
EXP900(i) ==
  IF i = 0 THEN BigFromInt(1)
  ELSE IF i = 1 THEN BigFromInt(900)
  ELSE BigMultiply(EXP900(i - 1), BigFromInt(900))

NoError == "NoError"
FormatError == "FormatError"

StatusIsOK(s) == s = NoError
StatusIsError(s) == s # NoError

RECURSIVE Base900Sum(_, _, _)
Base900Sum(codewords, count, i) ==
  IF i > count THEN << >>
  ELSE BigAdd(BigMulInt(EXP900(count - i), codewords[i]),
              Base900Sum(codewords, count, i + 1))

\* std::string::substr(1)
Substr1(s) == SubSeq(s, 2, Len(s))

\* a conversion that strips the first digit whatever it is
DecodeNoSentinel(codewords, count) ==
  [status |-> NoError, str |-> Substr1(BigToString(Base900Sum(codewords, count, 1)))]

\* lines 493-505
DecodeBase900toBase10(codewords, count) ==
  CHOOSE r \in { IF resultString # << >> /\ Head(resultString) = 49
                   THEN [status |-> NoError, str |-> Substr1(resultString)]
                   ELSE [status |-> FormatError, str |-> resultString] :
                   resultString \in { BigToString(Base900Sum(codewords, count, 1)) } } : TRUE

\* ------------------------------------------------------------ text sub-modes
ALPHA == "ALPHA"
LOWER == "LOWER"
MIXED == "MIXED"
PUNCT == "PUNCT"
ALPHA_SHIFT == "ALPHA_SHIFT"
PUNCT_SHIFT == "PUNCT_SHIFT"

Mode == {ALPHA, LOWER, MIXED, PUNCT, ALPHA_SHIFT, PUNCT_SHIFT}

\* (char)v appended by appendUtf8: the low eight bits of the codeword
ToChar(v) == v % 256

\* One pass of the switch of DecodeTextCompaction: the sub-mode and the prior
\* mode after the symbol, the character ch (0: none) and the escaped byte
\* appended inside the switch (<< >>: none).
Sym(m, p, ch, byte) == [subMode |-> m, priorToShiftMode |-> p, ch |-> ch, byte |-> byte]

CaseAlpha(subMode, prior, subModeCh, byteVal) ==
  IF subModeCh < 26 THEN Sym(subMode, prior, 65 + subModeCh, << >>)
  ELSE IF subModeCh = 26 THEN Sym(subMode, prior, 32, << >>)
  ELSE IF subModeCh = LL THEN Sym(LOWER, prior, 0, << >>)
  ELSE IF subModeCh = ML THEN Sym(MIXED, prior, 0, << >>)
  ELSE IF subModeCh = PS THEN Sym(PUNCT_SHIFT, subMode, 0, << >>)
  ELSE IF subModeCh = MODE_SHIFT_TO_BYTE_COMPACTION_MODE
       THEN Sym(subMode, prior, 0, << ToChar(byteVal) >>)
  ELSE IF subModeCh = TEXT_COMPACTION_MODE_LATCH THEN Sym(ALPHA, prior, 0, << >>)
  ELSE Sym(subMode, prior, 0, << >>)

CaseLower(subMode, prior, subModeCh, byteVal) ==
  IF subModeCh < 26 THEN Sym(subMode, prior, 97 + subModeCh, << >>)
  ELSE IF subModeCh = 26 THEN Sym(subMode, prior, 32, << >>)
  ELSE IF subModeCh = AS THEN Sym(ALPHA_SHIFT, subMode, 0, << >>)
  ELSE IF subModeCh = ML THEN Sym(MIXED, prior, 0, << >>)
  ELSE IF subModeCh = PS THEN Sym(PUNCT_SHIFT, subMode, 0, << >>)
  ELSE IF subModeCh = MODE_SHIFT_TO_BYTE_COMPACTION_MODE
       THEN Sym(subMode, prior, 0, << ToChar(byteVal) >>)
  ELSE IF subModeCh = TEXT_COMPACTION_MODE_LATCH THEN Sym(ALPHA, prior, 0, << >>)
  ELSE Sym(subMode, prior, 0, << >>)

CaseMixed(subMode, prior, subModeCh, byteVal) ==
  IF subModeCh < PL THEN Sym(subMode, prior, MIXED_CHARS[subModeCh + 1], << >>)
  ELSE IF subModeCh = PL THEN Sym(PUNCT, prior, 0, << >>)
  ELSE IF subModeCh = 26 THEN Sym(subMode, prior, 32, << >>)
  ELSE IF subModeCh = LL THEN Sym(LOWER, prior, 0, << >>)
  ELSE IF subModeCh = AL THEN Sym(ALPHA, prior, 0, << >>)
  ELSE IF subModeCh = PS THEN Sym(PUNCT_SHIFT, subMode, 0, << >>)
  ELSE IF subModeCh = MODE_SHIFT_TO_BYTE_COMPACTION_MODE
       THEN Sym(subMode, prior, 0, << ToChar(byteVal) >>)
  ELSE IF subModeCh = TEXT_COMPACTION_MODE_LATCH THEN Sym(ALPHA, prior, 0, << >>)
  ELSE Sym(subMode, prior, 0, << >>)

CasePunct(subMode, prior, subModeCh, byteVal) ==
  IF subModeCh < PAL THEN Sym(subMode, prior, PUNCT_CHARS[subModeCh + 1], << >>)
  ELSE IF subModeCh = PAL THEN Sym(ALPHA, prior, 0, << >>)
  ELSE IF subModeCh = MODE_SHIFT_TO_BYTE_COMPACTION_MODE
       THEN Sym(subMode, prior, 0, << ToChar(byteVal) >>)
  ELSE IF subModeCh = TEXT_COMPACTION_MODE_LATCH THEN Sym(ALPHA, prior, 0, << >>)
  ELSE Sym(subMode, prior, 0, << >>)

\* a shift case in which the latch does not override the restore
CaseAlphaShiftNoLatch(subMode, prior, subModeCh, byteVal) ==
  IF subModeCh < 26 THEN Sym(prior, prior, 65 + subModeCh, << >>)
  ELSE IF subModeCh = 26 THEN Sym(prior, prior, 32, << >>)
  ELSE Sym(prior, prior, 0, << >>)

\* "Restore sub-mode" comes first; 913 has no branch in this case
CaseAlphaShift(subMode, prior, subModeCh, byteVal) ==
  IF subModeCh < 26 THEN Sym(prior, prior, 65 + subModeCh, << >>)
  ELSE IF subModeCh = 26 THEN Sym(prior, prior, 32, << >>)
  ELSE IF subModeCh = TEXT_COMPACTION_MODE_LATCH THEN Sym(ALPHA, prior, 0, << >>)
  ELSE Sym(prior, prior, 0, << >>)

\* a shift case that forgets to restore the prior sub-mode
CaseShiftKept(subMode, prior, subModeCh, byteVal) ==
  IF subModeCh < PAL THEN Sym(subMode, prior, PUNCT_CHARS[subModeCh + 1], << >>)
  ELSE Sym(ALPHA, prior, 0, << >>)

CasePunctShift(subMode, prior, subModeCh, byteVal) ==
  IF subModeCh < PAL THEN Sym(prior, prior, PUNCT_CHARS[subModeCh + 1], << >>)
  ELSE IF subModeCh = PAL THEN Sym(ALPHA, prior, 0, << >>)
  ELSE IF subModeCh = MODE_SHIFT_TO_BYTE_COMPACTION_MODE
       THEN Sym(prior, prior, 0, << ToChar(byteVal) >>)
  ELSE IF subModeCh = TEXT_COMPACTION_MODE_LATCH THEN Sym(ALPHA, prior, 0, << >>)
  ELSE Sym(prior, prior, 0, << >>)

TextSwitch(subMode, prior, subModeCh, byteVal) ==
  CASE subMode = ALPHA -> CaseAlpha(subMode, prior, subModeCh, byteVal)
    [] subMode = LOWER -> CaseLower(subMode, prior, subModeCh, byteVal)
    [] subMode = MIXED -> CaseMixed(subMode, prior, subModeCh, byteVal)
    [] subMode = PUNCT -> CasePunct(subMode, prior, subModeCh, byteVal)
    [] subMode = ALPHA_SHIFT -> CaseAlphaShift(subMode, prior, subModeCh, byteVal)
    [] subMode = PUNCT_SHIFT -> CasePunctShift(subMode, prior, subModeCh, byteVal)

\* the characters one pass appends: the escaped byte, then ch when ch != 0
SymOut(r) == r.byte \o (IF r.ch # 0 THEN << r.ch >> ELSE << >>)

\* ------------------------------------------------------------ long (LP64)
\* little-endian bytes of a 64-bit value
LongZero == << 0, 0, 0, 0, 0, 0, 0, 0 >>

RECURSIVE LongMulAddC(_, _, _)
LongMulAddC(v, n, carry) ==
  IF v = << >> THEN << >>
  ELSE LET p == Head(v) * n + carry
       IN  << p % 256 >> \o LongMulAddC(Tail(v), n, p \div 256)

\* 900 * value + nextCode
Base900Step(value, nextCode) == LongMulAddC(value, 900, nextCode)

\* a conversion that writes the six bytes least significant first
Base256SextetReversed(value) == [j \in 1..6 |-> value[j]]

\* (uint8_t)(value >> (8 * (5 - j))) for j = 0..5
Base256Sextet(value) == [j \in 1..6 |-> value[7 - j]]

\* (uint8_t)codeword
ToUint8(v) == v % 256

\* StringCodecs::toUnicode: the identity on bytes under ISO-8859-1; under
\* any other character set the characters are tagged with the set
ToUnicode(bytes, enc) ==
  [i \in 1..Len(bytes) |-> IF enc = DEFAULT_ENCODING THEN bytes[i]
                           ELSE 256 * enc + bytes[i]]

\* CharacterSetECI::CharsetFromValue: the character set a value names
CharsetFromValue(v) == v

\* ------------------------------------------------------------ state
VARIABLES
  cw,                        \* const std::vector<int>& codewords
  ecLevel,                   \* int ecLevel
  result,                    \* DecoderResult& result (the caller's)
  pc,                        \* position in Decode and its callees
  codeIndex,                 \* Decode: int codeIndex
  code,                      \* Decode: int code
  status,                    \* Decode: ErrorStatus status
  resultString,              \* Decode: String resultString
  encoding,                  \* Decode: CharacterSet encoding
  resultMetadata,            \* Decode: *resultMetadata
  codeIndexArg,              \* the running callee's own int codeIndex
  caller,                    \* who called TextCompaction
  textCompactionData,        \* TextCompaction: entries [0, index)
  byteCompactionData,        \* TextCompaction: entries [0, index)
  subMode,                   \* DecodeTextCompaction: Mode subMode
  priorToShiftMode,          \* DecodeTextCompaction: Mode priorToShiftMode
  i,                         \* DecodeTextCompaction: int i
  fileId,                    \* DecodeMacroBlock: String fileId
  count,                     \* ByteCompaction / NumericCompaction: int count
  end,                       \* the running callee's bool end
  value,                     \* ByteCompaction: long value
  nextCode,                  \* ByteCompaction: int nextCode
  byteCompactedCodewords,    \* ByteCompaction: entries [0, count)
  decodedBytes,              \* ByteCompaction: ByteArray decodedBytes
  numericCodewords,          \* NumericCompaction: entries [0, count)
  additionalOptionCodeWords, \* DecodeMacroBlock: additionalOptionCodeWords
  readIdx,                   \* history: the highest index of codewords read so far
  handBack                   \* history: index of the codeword a sub-decoder stopped at and
                             \* left to its caller (-1: none, or the caller consumed it)

inputVars == << cw, ecLevel >>
decodeVars == << codeIndex, code, status, resultString, encoding, resultMetadata, result >>
textVars == << caller, textCompactionData, byteCompactionData, subMode, priorToShiftMode, i, fileId >>
byteVars == << value, nextCode, byteCompactedCodewords, decodedBytes >>
otherVars == << numericCodewords, additionalOptionCodeWords >>
vars == << inputVars, decodeVars, codeIndexArg, textVars, count, end, byteVars, otherVars,
           readIdx, handBack >>

\* codewords[0], codewords.size(), codewords[k]
Count == cw[1]
Size == Len(cw)
CW(k) == cw[k + 1]

Max(a, b) == IF a > b THEN a ELSE b

\* ------------------------------------------------------------ inputs
\* long division of a decimal number (digits most significant first) by n
RECURSIVE LongDiv(_, _, _)
LongDiv(digits, n, rem) ==
  IF digits = << >> THEN [q |-> << >>, r |-> rem]
  ELSE LET cur == 10 * rem + Head(digits)
           rest == LongDiv(Tail(digits), n, cur % n)
       IN  [q |-> << cur \div n >> \o rest.q, r |-> rest.r]

MaxLen == 4
MaxTextLen == 4
MaxByteRun == 10
MaxNumLen == 5
MaxMacroLen == 3
MaxGroups == 2
MaxEciLen == 3

SeqsOf(S, n) == [1..n -> S]
SeqsUpTo(S, n) == UNION { SeqsOf(S, k) : k \in 0..n }

\* a payload with its count in front and error-correction codewords behind
Framed(payload, ec) == << Len(payload) + 1 >> \o payload \o ec

\* the error-correction codewords that follow the declared count
EcAlphabet == { 0, 922, 923 }
EcTails == { << >>, << 0, 0 >> } \cup SeqsOf(EcAlphabet, 1)
FewTails == { << >>, << 0 >> }

\* short streams over one data codeword and every control codeword
Alphabet == { 1, 900, 901, 902, 913, 922, 923, 924, 925, 926, 927, 928 }
ShortStreams ==
  { Framed(p, e) : p \in SeqsUpTo(Alphabet, MaxLen - 1), e \in EcTails }

\* text runs: 27 = (A, ll), 28 = (A, ml), 29 = (A, ps), 837 = (ll, as),
\* 865 = (ml, pl), 300 = (K, A), and the byte escape
TextAlphabet == { 27, 28, 29, 837, 865, 300, 913 }
TextStreams ==
  { Framed(<< TEXT_COMPACTION_MODE_LATCH >> \o p, e) :
      p \in SeqsUpTo(TextAlphabet, MaxTextLen), e \in FewTails }

\* text runs with a latch behind a shift or a sub-mode change (870 = (pal, A)),
\* and a second text run behind a byte run
TextSamples ==
  { Framed(<< TEXT_COMPACTION_MODE_LATCH >> \o p, e) :
      p \in { << 27, 29, TEXT_COMPACTION_MODE_LATCH, 300 >>,
              << 28, 29, TEXT_COMPACTION_MODE_LATCH, 300 >>,
              << 837, TEXT_COMPACTION_MODE_LATCH, 300 >>,
              << 865, TEXT_COMPACTION_MODE_LATCH, 300 >>,
              << 27, TEXT_COMPACTION_MODE_LATCH, 300 >>,
              << 28, TEXT_COMPACTION_MODE_LATCH, 300 >>,
              << 27, 29, 870 >>, << 27, 29, 300, 300 >>, << 28, 29, 300, 300 >>,
              << 27, BYTE_COMPACTION_MODE_LATCH, 65, TEXT_COMPACTION_MODE_LATCH, 1 >> },
      e \in FewTails }

\* byte runs behind 901, ended by the count or by a latch
ByteAlphabet == { 65, 899 }
ByteEndings == { << >>, << TEXT_COMPACTION_MODE_LATCH, 1 >> }
ByteStreams ==
  { Framed(<< BYTE_COMPACTION_MODE_LATCH >> \o p \o t, e) :
      p \in SeqsUpTo(ByteAlphabet, MaxByteRun), t \in ByteEndings, e \in FewTails }

\* numeric groups behind 902
NumericAlphabet == { 1, 111, 624, 902 }
NumericStreams ==
  { Framed(<< NUMERIC_COMPACTION_MODE_LATCH >> \o p, e) :
      p \in SeqsUpTo(NumericAlphabet, MaxNumLen), e \in FewTails }

\* the example of the comment of lines 457-492, alone and before a second
\* group, and groups that reach the cap of 15 codewords
Example900 == << 1, 624, 434, 632, 282, 200 >>
Cap15 == << 5 >> \o [k \in 1..14 |-> 0]
NumericSamples ==
  { Framed(<< NUMERIC_COMPACTION_MODE_LATCH >> \o p, e) :
      p \in { Example900,
              Example900 \o << NUMERIC_COMPACTION_MODE_LATCH, 111, 111 >>,
              Cap15, Cap15 \o << 111 >>, Cap15 \o << 1, 624 >>,
              Cap15 \o << NUMERIC_COMPACTION_MODE_LATCH, 111 >> },
      e \in FewTails }

\* macro blocks: a segment index, a file id, optional fields, a terminator
MacroIndexes == { << 0, 17 >>, << 0, 1 >>, << 1, 1 >> }
MacroAlphabet == { 1, 922, 923, 900 }
MacroStreams ==
  { Framed(<< BEGIN_MACRO_PDF417_CONTROL_BLOCK >> \o x \o p, e) :
      x \in MacroIndexes, p \in SeqsUpTo(MacroAlphabet, MaxMacroLen), e \in FewTails }

\* six bytes as five base-900 codewords, most significant first: the encoding
\* that the 924 branch undoes
RECURSIVE BigFromBytes(_)
BigFromBytes(bytes) ==
  IF bytes = << >> THEN << >>
  ELSE BigAdd(BigMulInt(BigFromBytes(SubSeq(bytes, 1, Len(bytes) - 1)), 256),
              BigFromInt(bytes[Len(bytes)]))

RECURSIVE Base900Digits(_, _)
Base900Digits(digits, n) ==
  IF n = 0 THEN << >>
  ELSE Base900Digits(LongDiv(digits, 900, 0).q, n - 1) \o << LongDiv(digits, 900, 0).r >>

Encode6(bytes) ==
  LET v == BigFromBytes(bytes)
  IN  Base900Digits([k \in 1..Len(v) |-> v[Len(v) + 1 - k]], 5)

\* byte runs behind 924: encoded sextets, and single groups of any data codewords
SextetSamples ==
  { << 0, 0, 0, 0, 0, 0 >>, << 255, 255, 255, 255, 255, 255 >>, << 65, 66, 67, 68, 69, 70 >>,
    << 0, 0, 0, 0, 0, 1 >>, << 128, 0, 0, 0, 0, 0 >>, << 1, 2, 3, 4, 5, 6 >> }
RECURSIVE Flatten(_)
Flatten(ss) == IF ss = << >> THEN << >> ELSE Head(ss) \o Flatten(Tail(ss))
EncodedRuns ==
  { Flatten([g \in 1..Len(ss) |-> Encode6(ss[g])]) : ss \in SeqsUpTo(SextetSamples, MaxGroups) }
ByteBAlphabet == { 0, 65, 899 }
ByteBStreams ==
  { Framed(<< BYTE_COMPACTION_MODE_LATCH_6 >> \o p \o t, e) :
      p \in EncodedRuns \cup SeqsOf(ByteBAlphabet, 5), t \in ByteEndings, e \in FewTails }

\* a macro block with segment index 7 and file id "ABC" (1 = (A, B), 89 = (C, ps)),
\* alone, behind a text run, before a text run and before a byte run
MacroExample == << BEGIN_MACRO_PDF417_CONTROL_BLOCK, 0, 17, 1, 89, MACRO_PDF417_TERMINATOR >>
MacroOptionalExample ==
  << BEGIN_MACRO_PDF417_CONTROL_BLOCK, 0, 17, 1, BEGIN_MACRO_PDF417_OPTIONAL_FIELD, 5, 3,
     MACRO_PDF417_TERMINATOR >>
MacroSamples ==
  { Framed(p, e) :
      p \in { MacroExample, MacroOptionalExample,
              << BEGIN_MACRO_PDF417_CONTROL_BLOCK, 0, 17, 1, BYTE_COMPACTION_MODE_LATCH, 65 >>,
              << BEGIN_MACRO_PDF417_CONTROL_BLOCK, 0, 17, 1, NUMERIC_COMPACTION_MODE_LATCH, 111 >>,
              << TEXT_COMPACTION_MODE_LATCH, 1 >> \o MacroExample,
              MacroExample \o << TEXT_COMPACTION_MODE_LATCH, 1 >>,
              MacroExample \o << BYTE_COMPACTION_MODE_LATCH, 65 >>,
              MacroOptionalExample \o << BYTE_COMPACTION_MODE_LATCH, 65 >> },
      e \in FewTails }

\* an ECI codeword with its payload, then a body under the encoding it leaves
EciPrefixes ==
  { << ECI_CHARSET, 26 >>, << ECI_CHARSET, 1 >>, << ECI_CHARSET, 3 >>,
    << ECI_GENERAL_PURPOSE, 1, 1 >>, << ECI_USER_DEFINED, 1 >> }
EciAlphabet == { 65, BYTE_COMPACTION_MODE_LATCH, TEXT_COMPACTION_MODE_LATCH, ECI_USER_DEFINED }
EciStreams ==
  { Framed(x \o p, e) : x \in EciPrefixes, p \in SeqsUpTo(EciAlphabet, MaxEciLen), e \in FewTails }

\* a codeword of 900 or more that no case of the switch of Decode names, as the
\* first control code and behind a text run
DefaultSamples ==
  { Framed(p, e) : p \in { << 903, 1 >>, << 1, 903, 1 >>, << 903 >> }, e \in FewTails }

Streams ==
  ShortStreams \cup TextStreams \cup TextSamples \cup ByteStreams \cup ByteBStreams \cup NumericStreams
    \cup NumericSamples \cup MacroStreams \cup MacroSamples
    \cup EciStreams \cup DefaultSamples

EcLevels == { 8 }

\* a default-constructed DecoderResultExtra and DecoderResult
NewExtra == [segmentIndex |-> -1, fileId |-> << >>, lastSegment |-> FALSE, optionalData |-> << >>]
\* the shared_ptr extra is a sequence of no object (null) or one object
NewResult == [text |-> << >>, ecLevel |-> << >>, extra |-> << >>]

Init ==
  /\ cw \in Streams
  /\ ecLevel \in EcLevels
  /\ result = NewResult
  /\ pc = "start"
  /\ codeIndex = 1
  /\ code = 0
  /\ status = NoError
  /\ resultString = << >>
  /\ encoding = DEFAULT_ENCODING
  /\ resultMetadata = NewExtra
  /\ codeIndexArg = 0
  /\ caller = "Decode"
  /\ textCompactionData = << >>
  /\ byteCompactionData = << >>
  /\ subMode = ALPHA
  /\ priorToShiftMode = ALPHA
  /\ i = 0
  /\ fileId = << >>
  /\ count = 0
  /\ end = FALSE
  /\ value = LongZero
  /\ nextCode = 0
  /\ byteCompactedCodewords = << >>
  /\ decodedBytes = << >>
  /\ numericCodewords = << >>
  /\ additionalOptionCodeWords = << >>
  /\ readIdx = 0
  /\ handBack = -1

\* ------------------------------------------------------------ reads
\* codewords[k] without a bounds check: inside the vector the element, past
\* its end undefined behaviour (any value, or the process dies)
SEGV == -1
UBValues == EcAlphabet \cup { SEGV }
ReadOutcomes(k) == IF k < Size THEN { CW(k) } ELSE UBValues

Crash ==
  /\ pc' = "crashed"
  /\ UNCHANGED << inputVars, decodeVars, codeIndexArg, textVars, count, end, byteVars,
                  otherVars, handBack >>

\* ------------------------------------------------------------ Decode
\* lines 625-631: the locals are constructed, the first control code is read
Start ==
  /\ pc = "start"
  /\ \E v \in ReadOutcomes(1) :
       /\ readIdx' = Max(readIdx, 1)
       /\ IF v = SEGV THEN Crash
          ELSE /\ code' = v
               /\ codeIndex' = 2
               /\ pc' = "loop"
               /\ UNCHANGED << inputVars, status, resultString, encoding, resultMetadata,
                               result, codeIndexArg, textVars, count, end, byteVars,
                               otherVars, handBack >>

\* line 632
LoopGuard == codeIndex < Count /\ status = NoError

Dispatching == pc = "loop" /\ LoopGuard

KnownCodes ==
  { TEXT_COMPACTION_MODE_LATCH, BYTE_COMPACTION_MODE_LATCH, BYTE_COMPACTION_MODE_LATCH_6,
    MODE_SHIFT_TO_BYTE_COMPACTION_MODE, NUMERIC_COMPACTION_MODE_LATCH, ECI_CHARSET,
    ECI_GENERAL_PURPOSE, ECI_USER_DEFINED, BEGIN_MACRO_PDF417_CONTROL_BLOCK,
    BEGIN_MACRO_PDF417_OPTIONAL_FIELD, MACRO_PDF417_TERMINATOR }

\* entry of TextCompaction(codewords, from, out): lines 296-301
EnterText(from, who) ==
  /\ codeIndexArg' = from
  /\ caller' = who
  /\ textCompactionData' = << >>
  /\ byteCompactionData' = << >>
  /\ end' = FALSE
  /\ handBack' = -1
  /\ pc' = "text"

\* lines 634-636
DispatchText ==
  /\ Dispatching
  /\ code = TEXT_COMPACTION_MODE_LATCH
  /\ EnterText(codeIndex, "Decode")
  /\ UNCHANGED << inputVars, decodeVars, subMode, priorToShiftMode, i, fileId, count,
                  byteVars, otherVars, readIdx >>

\* lines 666-672
DispatchDefault ==
  /\ Dispatching
  /\ code \notin KnownCodes
  /\ codeIndex' = codeIndex - 1
  /\ EnterText(codeIndex - 1, "Decode")
  /\ UNCHANGED << inputVars, code, status, resultString, encoding, resultMetadata, result,
                  subMode, priorToShiftMode, i, fileId, count, byteVars, otherVars, readIdx >>

\* lines 637-640 and 358-366 / 409-414
DispatchByte ==
  /\ Dispatching
  /\ code \in { BYTE_COMPACTION_MODE_LATCH, BYTE_COMPACTION_MODE_LATCH_6 }
  /\ count' = 0
  /\ value' = LongZero
  /\ end' = FALSE
  /\ decodedBytes' = << >>
  /\ byteCompactedCodewords' = << >>
  /\ handBack' = -1
  /\ IF code = BYTE_COMPACTION_MODE_LATCH
     THEN /\ nextCode' = CW(codeIndex)
          /\ codeIndexArg' = codeIndex + 1
          /\ readIdx' = Max(readIdx, codeIndex)
          /\ pc' = "byteA"
     ELSE /\ codeIndexArg' = codeIndex
          /\ pc' = "byteB"
          /\ UNCHANGED << nextCode, readIdx >>
  /\ UNCHANGED << inputVars, decodeVars, textVars, otherVars >>

\* lines 641-643
DispatchModeShift ==
  /\ Dispatching
  /\ code = MODE_SHIFT_TO_BYTE_COMPACTION_MODE
  /\ resultString' = Append(resultString, ToChar(CW(codeIndex)))
  /\ codeIndex' = codeIndex + 1
  /\ readIdx' = Max(readIdx, codeIndex)
  /\ handBack' = -1
  /\ pc' = "fetch"
  /\ UNCHANGED << inputVars, code, status, encoding, resultMetadata, result, codeIndexArg,
                  textVars, count, end, byteVars, otherVars >>

\* lines 644-646 and 518-521
DispatchNumeric ==
  /\ Dispatching
  /\ code = NUMERIC_COMPACTION_MODE_LATCH
  /\ codeIndexArg' = codeIndex
  /\ count' = 0
  /\ end' = FALSE
  /\ numericCodewords' = << >>
  /\ handBack' = -1
  /\ pc' = "numeric"
  /\ UNCHANGED << inputVars, decodeVars, textVars, byteVars, additionalOptionCodeWords,
                  readIdx >>

\* lines 647-649
DispatchEciCharset ==
  /\ Dispatching
  /\ code = ECI_CHARSET
  /\ encoding' = CharsetFromValue(CW(codeIndex))
  /\ codeIndex' = codeIndex + 1
  /\ readIdx' = Max(readIdx, codeIndex)
  /\ handBack' = -1
  /\ pc' = "fetch"
  /\ UNCHANGED << inputVars, code, status, resultString, resultMetadata, result,
                  codeIndexArg, textVars, count, end, byteVars, otherVars >>

\* a skip of one codeword whatever the ECI codeword
EciSkipOne(c) == 1

\* the payload codewords lines 650-657 skip
EciSkip(c) == IF c = ECI_GENERAL_PURPOSE THEN 2 ELSE 1

\* lines 650-657
DispatchEciSkip ==
  /\ Dispatching
  /\ code \in { ECI_GENERAL_PURPOSE, ECI_USER_DEFINED }
  /\ codeIndex' = codeIndex + EciSkip(code)
  /\ handBack' = -1
  /\ pc' = "fetch"
  /\ UNCHANGED << inputVars, code, status, resultString, encoding, resultMetadata, result,
                  codeIndexArg, textVars, count, end, byteVars, otherVars, readIdx >>

\* lines 661-665
DispatchMacroField ==
  /\ Dispatching
  /\ code \in { BEGIN_MACRO_PDF417_OPTIONAL_FIELD, MACRO_PDF417_TERMINATOR }
  /\ status' = FormatError
  /\ handBack' = -1
  /\ pc' = "fetch"
  /\ UNCHANGED << inputVars, codeIndex, code, resultString, encoding, resultMetadata,
                  result, codeIndexArg, textVars, count, end, byteVars, otherVars, readIdx >>

\* a guard that compares the cursor with the declared count
FetchBelowCount(k) == k < Count

\* line 674: the guard of the dispatcher's read of the next control code
FetchInRange(k) == k < Size

\* lines 674-679
Fetch ==
  /\ pc = "fetch"
  /\ IF FetchInRange(codeIndex)
     THEN /\ code' = CW(codeIndex)
          /\ codeIndex' = codeIndex + 1
          /\ readIdx' = Max(readIdx, codeIndex)
          /\ UNCHANGED status
     ELSE /\ status' = FormatError
          /\ UNCHANGED << code, codeIndex, readIdx >>
  /\ pc' = "loop"
  /\ UNCHANGED << inputVars, resultString, encoding, resultMetadata, result, codeIndexArg,
                  textVars, count, end, byteVars, otherVars, handBack >>

\* an exit that forgets the check of the text
FinalStatusKeep(st, text) == st

\* lines 681-683
FinalStatus(st, text) == IF text = << >> THEN FormatError ELSE st

\* std::to_string(int) for a non-negative int
IntToString(n) == BigToString(BigFromInt(n))

\* an exit that writes the result whatever the status
PublishAlways(st, res, text, level, extra) ==
  [text |-> text, ecLevel |-> IntToString(level), extra |-> << extra >>]

\* lines 685-689
Publish(st, res, text, level, extra) ==
  IF StatusIsOK(st)
  THEN [text |-> text, ecLevel |-> IntToString(level), extra |-> << extra >>]
  ELSE res

\* lines 681-690, after the loop condition of line 632 fails
Finish ==
  /\ pc = "loop"
  /\ ~LoopGuard
  /\ status' = FinalStatus(status, resultString)
  /\ result' = Publish(status', result, resultString, ecLevel, resultMetadata)
  /\ pc' = "done"
  /\ UNCHANGED << inputVars, codeIndex, code, resultString, encoding, resultMetadata,
                  codeIndexArg, textVars, count, end, byteVars, otherVars, readIdx, handBack >>

\* ------------------------------------------------------------ TextCompaction
\* lines 315-320: the codewords TextCompaction hands back to its caller
TextStops ==
  { BYTE_COMPACTION_MODE_LATCH, BYTE_COMPACTION_MODE_LATCH_6, NUMERIC_COMPACTION_MODE_LATCH,
    BEGIN_MACRO_PDF417_CONTROL_BLOCK, BEGIN_MACRO_PDF417_OPTIONAL_FIELD,
    MACRO_PDF417_TERMINATOR }

\* line 302
TextGuard == codeIndexArg < Count /\ ~end

\* lines 304-308
TextData ==
  /\ pc = "text" /\ TextGuard
  /\ CW(codeIndexArg) < TEXT_COMPACTION_MODE_LATCH
  /\ textCompactionData' =
       textCompactionData \o << CW(codeIndexArg) \div 30, CW(codeIndexArg) % 30 >>
  /\ byteCompactionData' = byteCompactionData \o << 0, 0 >>
  /\ codeIndexArg' = codeIndexArg + 1
  /\ readIdx' = Max(readIdx, codeIndexArg)
  /\ UNCHANGED << inputVars, decodeVars, caller, subMode, priorToShiftMode, i, fileId,
                  count, end, byteVars, otherVars, handBack, pc >>

\* lines 311-314
TextLatch ==
  /\ pc = "text" /\ TextGuard
  /\ CW(codeIndexArg) = TEXT_COMPACTION_MODE_LATCH
  /\ textCompactionData' = Append(textCompactionData, TEXT_COMPACTION_MODE_LATCH)
  /\ byteCompactionData' = Append(byteCompactionData, 0)
  /\ codeIndexArg' = codeIndexArg + 1
  /\ readIdx' = Max(readIdx, codeIndexArg)
  /\ UNCHANGED << inputVars, decodeVars, caller, subMode, priorToShiftMode, i, fileId,
                  count, end, byteVars, otherVars, handBack, pc >>

\* a stop that steps back over the codeword before the one it read as well
RewindTwo(k) == k - 2

\* a stop that forgets codeIndex--
RewindNone(k) == k

\* codeIndex-- (lines 321, 380, 430, 539), applied to the cursor after the read
Rewind(k) == k - 1

\* lines 315-323
TextStop ==
  /\ pc = "text" /\ TextGuard
  /\ CW(codeIndexArg) \in TextStops
  /\ codeIndexArg' = Rewind(codeIndexArg + 1)
  /\ end' = TRUE
  /\ handBack' = codeIndexArg
  /\ readIdx' = Max(readIdx, codeIndexArg)
  /\ UNCHANGED << inputVars, decodeVars, textVars, count, byteVars, otherVars, pc >>

\* lines 324-335: the codeword after 913 is read with no check against the count
TextModeShift ==
  /\ pc = "text" /\ TextGuard
  /\ CW(codeIndexArg) = MODE_SHIFT_TO_BYTE_COMPACTION_MODE
  /\ \E v \in ReadOutcomes(codeIndexArg + 1) :
       /\ readIdx' = Max(readIdx, codeIndexArg + 1)
       /\ IF v = SEGV THEN Crash
          ELSE /\ textCompactionData' =
                    Append(textCompactionData, MODE_SHIFT_TO_BYTE_COMPACTION_MODE)
               /\ byteCompactionData' = Append(byteCompactionData, v)
               /\ codeIndexArg' = codeIndexArg + 2
               /\ UNCHANGED << inputVars, decodeVars, caller, subMode, priorToShiftMode, i,
                               fileId, count, end, byteVars, otherVars, handBack, pc >>

\* the switch of line 310 has no default: any other codeword is consumed
TextOther ==
  /\ pc = "text" /\ TextGuard
  /\ CW(codeIndexArg) > TEXT_COMPACTION_MODE_LATCH
  /\ CW(codeIndexArg) \notin TextStops \cup { MODE_SHIFT_TO_BYTE_COMPACTION_MODE }
  /\ codeIndexArg' = codeIndexArg + 1
  /\ readIdx' = Max(readIdx, codeIndexArg)
  /\ UNCHANGED << inputVars, decodeVars, textVars, count, end, byteVars, otherVars,
                  handBack, pc >>

\* line 339 and lines 119-121
TextLoopExit ==
  /\ pc = "text" /\ ~TextGuard
  /\ subMode' = ALPHA
  /\ priorToShiftMode' = ALPHA
  /\ i' = 0
  /\ pc' = "decodeText"
  /\ UNCHANGED << inputVars, decodeVars, codeIndexArg, caller, textCompactionData,
                  byteCompactionData, fileId, count, end, byteVars, otherVars, readIdx,
                  handBack >>

\* lines 122-280: one pass of the loop of DecodeTextCompaction
DecodeTextStep ==
  /\ pc = "decodeText"
  /\ i < Len(textCompactionData)
  /\ LET r == TextSwitch(subMode, priorToShiftMode, textCompactionData[i + 1],
                         byteCompactionData[i + 1])
     IN  /\ subMode' = r.subMode
         /\ priorToShiftMode' = r.priorToShiftMode
         /\ IF caller = "Decode"
            THEN resultString' = resultString \o SymOut(r) /\ UNCHANGED fileId
            ELSE fileId' = fileId \o SymOut(r) /\ UNCHANGED resultString
  /\ i' = i + 1
  /\ UNCHANGED << inputVars, codeIndex, code, status, encoding, resultMetadata, result,
                  codeIndexArg, caller, textCompactionData, byteCompactionData, count, end,
                  byteVars, otherVars, readIdx, handBack, pc >>

\* line 340, back in Decode (lines 635, 671)
TextReturn ==
  /\ pc = "decodeText"
  /\ i >= Len(textCompactionData)
  /\ caller = "Decode"
  /\ codeIndex' = codeIndexArg
  /\ pc' = "fetch"
  /\ UNCHANGED << inputVars, code, status, resultString, encoding, resultMetadata, result,
                  codeIndexArg, textVars, count, end, byteVars, otherVars, readIdx, handBack >>

\* ------------------------------------------------------------ ByteCompaction
\* lines 373-379 and 423-429
ByteStops ==
  { TEXT_COMPACTION_MODE_LATCH, BYTE_COMPACTION_MODE_LATCH, NUMERIC_COMPACTION_MODE_LATCH,
    BYTE_COMPACTION_MODE_LATCH_6, BEGIN_MACRO_PDF417_CONTROL_BLOCK,
    BEGIN_MACRO_PDF417_OPTIONAL_FIELD, MACRO_PDF417_TERMINATOR }

\* lines 373-379: does the 901 loop stop at this codeword
ByteAStops(c) == c \in ByteStops

\* lines 367, 415
ByteGuard == codeIndexArg < Count /\ ~end

\* line 384 / 434
GroupFull(n) == (n % 5 = 0) /\ (n > 0)

\* lines 367-394: one pass of the loop of the 901 branch
ByteAStep ==
  /\ pc = "byteA" /\ ByteGuard
  /\ nextCode' = CW(codeIndexArg)
  /\ readIdx' = Max(readIdx, codeIndexArg)
  /\ LET stored == Append(byteCompactedCodewords, nextCode)
         sum == Base900Step(value, nextCode)
     IN  IF ByteAStops(nextCode')
         THEN /\ codeIndexArg' = Rewind(codeIndexArg + 1)
              /\ end' = TRUE
              /\ handBack' = codeIndexArg
              /\ byteCompactedCodewords' = stored
              /\ count' = count + 1
              /\ value' = sum
              /\ UNCHANGED decodedBytes
         ELSE /\ codeIndexArg' = codeIndexArg + 1
              /\ UNCHANGED << end, handBack >>
              /\ IF GroupFull(count + 1)
                 THEN /\ decodedBytes' = decodedBytes \o Base256Sextet(sum)
                      /\ value' = LongZero
                      /\ count' = 0
                      /\ byteCompactedCodewords' = << >>
                 ELSE /\ byteCompactedCodewords' = stored
                      /\ count' = count + 1
                      /\ value' = sum
                      /\ UNCHANGED decodedBytes
  /\ UNCHANGED << inputVars, decodeVars, textVars, otherVars, pc >>

\* an end of the loop that forgets the pending codeword
LastGroupDrop(stored, pending, k) == stored

\* lines 397-399: the codewords of the last group, the pending one added
LastGroup(stored, pending, k) ==
  IF k = Count /\ pending < TEXT_COMPACTION_MODE_LATCH THEN Append(stored, pending)
  ELSE stored

\* lines 404-406
RawBytes(stored) == [k \in 1..Len(stored) |-> ToUint8(stored[k])]

\* lines 396-408 and 445-446, back in Decode (line 639)
ByteAReturn ==
  /\ pc = "byteA" /\ ~ByteGuard
  /\ byteCompactedCodewords' = LastGroup(byteCompactedCodewords, nextCode, codeIndexArg)
  /\ count' = Len(byteCompactedCodewords')
  /\ decodedBytes' = decodedBytes \o RawBytes(byteCompactedCodewords')
  /\ resultString' = resultString \o ToUnicode(decodedBytes', encoding)
  /\ codeIndex' = codeIndexArg
  /\ pc' = "fetch"
  /\ UNCHANGED << inputVars, code, status, encoding, resultMetadata, result, codeIndexArg,
                  textVars, end, value, nextCode, otherVars, readIdx, handBack >>

\* lines 415-443: one pass of the loop of the 924 branch
ByteBStep ==
  /\ pc = "byteB" /\ ByteGuard
  /\ readIdx' = Max(readIdx, codeIndexArg)
  /\ LET c == CW(codeIndexArg)
         n == IF c < TEXT_COMPACTION_MODE_LATCH THEN count + 1 ELSE count
         sum == IF c < TEXT_COMPACTION_MODE_LATCH THEN Base900Step(value, c) ELSE value
     IN  /\ IF c >= TEXT_COMPACTION_MODE_LATCH /\ c \in ByteStops
            THEN /\ codeIndexArg' = Rewind(codeIndexArg + 1)
                 /\ end' = TRUE
                 /\ handBack' = codeIndexArg
            ELSE /\ codeIndexArg' = codeIndexArg + 1
                 /\ UNCHANGED << end, handBack >>
         /\ IF GroupFull(n)
            THEN /\ decodedBytes' = decodedBytes \o Base256Sextet(sum)
                 /\ value' = LongZero
                 /\ count' = 0
            ELSE /\ value' = sum
                 /\ count' = n
                 /\ UNCHANGED decodedBytes
  /\ UNCHANGED << inputVars, decodeVars, textVars, nextCode, byteCompactedCodewords,
                  otherVars, pc >>

\* lines 445-446, back in Decode (line 639)
ByteBReturn ==
  /\ pc = "byteB" /\ ~ByteGuard
  /\ resultString' = resultString \o ToUnicode(decodedBytes, encoding)
  /\ codeIndex' = codeIndexArg
  /\ pc' = "fetch"
  /\ UNCHANGED << inputVars, code, status, encoding, resultMetadata, result, codeIndexArg,
                  textVars, count, end, byteVars, otherVars, readIdx, handBack >>

\* ------------------------------------------------------------ NumericCompaction
\* lines 533-538
NumericStops ==
  { TEXT_COMPACTION_MODE_LATCH, BYTE_COMPACTION_MODE_LATCH, BYTE_COMPACTION_MODE_LATCH_6,
    BEGIN_MACRO_PDF417_CONTROL_BLOCK, BEGIN_MACRO_PDF417_OPTIONAL_FIELD,
    MACRO_PDF417_TERMINATOR }

\* line 523
NumericGuard == codeIndexArg < Count /\ ~end

\* a loop in which a 902 inside numeric mode does not close the group
GroupClosesNoLatch(n, c, e) == n % MAX_NUMERIC_CODEWORDS = 0 \/ e

\* line 543: does the group close after this codeword
GroupCloses(n, c, e) == n % MAX_NUMERIC_CODEWORDS = 0 \/ c = NUMERIC_COMPACTION_MODE_LATCH \/ e

\* lines 523-558: one pass of the loop; a group that fails to convert returns
\* the error at once, leaving Decode's codeIndex as it was (next is not set)
NumericStep ==
  /\ pc = "numeric" /\ NumericGuard
  /\ readIdx' = Max(readIdx, codeIndexArg)
  /\ LET c == CW(codeIndexArg)
         stops == c >= TEXT_COMPACTION_MODE_LATCH /\ c \in NumericStops
         e == (codeIndexArg + 1 = Count) \/ stops
         group == IF c < TEXT_COMPACTION_MODE_LATCH THEN Append(numericCodewords, c)
                  ELSE numericCodewords
         n == Len(group)
         r == DecodeBase900toBase10(group, n)
     IN  IF GroupCloses(n, c, e) /\ n > 0 /\ StatusIsError(r.status)
         THEN /\ status' = r.status
              /\ pc' = "fetch"
              /\ UNCHANGED << codeIndexArg, end, handBack, numericCodewords, count,
                              resultString >>
         ELSE /\ codeIndexArg' = IF stops THEN Rewind(codeIndexArg + 1) ELSE codeIndexArg + 1
              /\ handBack' = IF stops THEN codeIndexArg ELSE handBack
              /\ end' = e
              /\ IF GroupCloses(n, c, e) /\ n > 0
                 THEN /\ resultString' = resultString \o r.str
                      /\ numericCodewords' = << >>
                      /\ count' = 0
                 ELSE /\ numericCodewords' = group
                      /\ count' = n
                      /\ UNCHANGED resultString
              /\ UNCHANGED << status, pc >>
  /\ UNCHANGED << inputVars, codeIndex, code, encoding, resultMetadata, result, textVars,
                  byteVars, additionalOptionCodeWords >>

\* lines 559-560, back in Decode (line 645)
NumericReturn ==
  /\ pc = "numeric" /\ ~NumericGuard
  /\ codeIndex' = codeIndexArg
  /\ pc' = "fetch"
  /\ UNCHANGED << inputVars, code, status, resultString, encoding, resultMetadata, result,
                  codeIndexArg, textVars, count, end, byteVars, otherVars, readIdx, handBack >>

\* ------------------------------------------------------------ DecodeMacroBlock
\* std::stoi of a string of decimal digits
RECURSIVE StoI(_)
StoI(str) == IF str = << >> THEN 0 ELSE 10 * StoI(SubSeq(str, 1, Len(str) - 1)) + (str[Len(str)] - 48)

\* line 566
MacroHasIndex == codeIndex + NUMBER_OF_SEQUENCE_CODEWORDS <= Count

\* lines 570-576
SegmentIndex ==
  DecodeBase900toBase10(<< CW(codeIndex), CW(codeIndex + 1) >>, NUMBER_OF_SEQUENCE_CODEWORDS)

\* lines 566-569 and 576-579: the block returns the error, next is not set
MacroFail ==
  /\ Dispatching
  /\ code = BEGIN_MACRO_PDF417_CONTROL_BLOCK
  /\ IF MacroHasIndex
     THEN /\ StatusIsError(SegmentIndex.status)
          /\ status' = SegmentIndex.status
          /\ readIdx' = Max(readIdx, codeIndex + 1)
     ELSE /\ status' = FormatError
          /\ UNCHANGED readIdx
  /\ handBack' = -1
  /\ pc' = "fetch"
  /\ UNCHANGED << inputVars, codeIndex, code, resultString, encoding, resultMetadata,
                  result, codeIndexArg, textVars, count, end, byteVars, otherVars >>

\* line 581 on an empty string: std::stoi throws std::invalid_argument, which
\* nothing in Decode catches
MacroThrow ==
  /\ Dispatching
  /\ code = BEGIN_MACRO_PDF417_CONTROL_BLOCK
  /\ MacroHasIndex
  /\ StatusIsOK(SegmentIndex.status)
  /\ SegmentIndex.str = << >>
  /\ readIdx' = Max(readIdx, codeIndex + 1)
  /\ pc' = "threw"
  /\ UNCHANGED << inputVars, decodeVars, codeIndexArg, textVars, count, end, byteVars,
                  otherVars, handBack >>

\* lines 658-659 and 566-584: the segment index is set, the file id is read
DispatchMacro ==
  /\ Dispatching
  /\ code = BEGIN_MACRO_PDF417_CONTROL_BLOCK
  /\ MacroHasIndex
  /\ StatusIsOK(SegmentIndex.status)
  /\ SegmentIndex.str # << >>
  /\ resultMetadata' = [resultMetadata EXCEPT !.segmentIndex = StoI(SegmentIndex.str)]
  /\ readIdx' = Max(readIdx, codeIndex + 1)
  /\ fileId' = << >>
  /\ EnterText(codeIndex + NUMBER_OF_SEQUENCE_CODEWORDS, "DecodeMacroBlock")
  /\ UNCHANGED << inputVars, codeIndex, code, status, resultString, encoding, result,
                  subMode, priorToShiftMode, i, count, byteVars, otherVars >>

\* lines 584-585: TextCompaction returns into DecodeMacroBlock
TextReturnMacro ==
  /\ pc = "decodeText"
  /\ i >= Len(textCompactionData)
  /\ caller = "DecodeMacroBlock"
  /\ resultMetadata' = [resultMetadata EXCEPT !.fileId = fileId]
  /\ pc' = "macroTail"
  /\ UNCHANGED << inputVars, codeIndex, code, status, resultString, encoding, result,
                  codeIndexArg, textVars, count, end, byteVars, otherVars, readIdx, handBack >>

\* lines 587-592: codewords[codeIndex] is read with no check against the count
MacroOptionalBegin ==
  /\ pc = "macroTail"
  /\ \E v \in ReadOutcomes(codeIndexArg) :
       /\ v = BEGIN_MACRO_PDF417_OPTIONAL_FIELD
       /\ readIdx' = Max(readIdx, codeIndexArg)
       /\ codeIndexArg' = codeIndexArg + 1
       /\ additionalOptionCodeWords' = << >>
       /\ end' = FALSE
       /\ handBack' = -1
       /\ pc' = "macroOpt"
  /\ UNCHANGED << inputVars, decodeVars, textVars, count, byteVars, numericCodewords >>

\* lines 613-619, back in Decode (line 659)
MacroTerminator ==
  /\ pc = "macroTail"
  /\ \E v \in ReadOutcomes(codeIndexArg) :
       /\ v = MACRO_PDF417_TERMINATOR
       /\ readIdx' = Max(readIdx, codeIndexArg)
       /\ resultMetadata' = [resultMetadata EXCEPT !.lastSegment = TRUE]
       /\ codeIndexArg' = codeIndexArg + 1
       /\ codeIndex' = codeIndexArg + 1
       /\ handBack' = -1
       /\ pc' = "fetch"
  /\ UNCHANGED << inputVars, code, status, resultString, encoding, result, textVars, count,
                  end, byteVars, otherVars >>

\* a fall-through that steps over the codeword it inspected
PlainCursorSkip(k) == k + 1

\* lines 613-618: with neither marker at the cursor, next is the cursor as it is
PlainCursor(k) == k

\* lines 587, 613, 618-619: neither marker; back in Decode (line 659)
MacroPlain ==
  /\ pc = "macroTail"
  /\ \E v \in ReadOutcomes(codeIndexArg) :
       /\ v \notin { BEGIN_MACRO_PDF417_OPTIONAL_FIELD, MACRO_PDF417_TERMINATOR }
       /\ readIdx' = Max(readIdx, codeIndexArg)
       /\ IF v = SEGV THEN Crash
          ELSE /\ codeIndex' = PlainCursor(codeIndexArg)
               /\ pc' = "fetch"
               /\ UNCHANGED << inputVars, code, status, resultString, encoding,
                               resultMetadata, result, codeIndexArg, textVars, count, end,
                               byteVars, otherVars, handBack >>

\* line 593
MacroGuard == codeIndexArg < Count /\ ~end

\* the cursor after the terminator inside the optional-field loop: lines 594, 602
AfterOptionalTerminator(k) == k + 2

\* a collection that puts the new codeword in front
PushFront(v, c) == << c >> \o v

\* line 596: additionalOptionCodeWords.push_back(code)
PushBack(v, c) == Append(v, c)

\* lines 593-609: one pass of the optional-field loop
MacroOptStep ==
  /\ pc = "macroOpt" /\ MacroGuard
  /\ readIdx' = Max(readIdx, codeIndexArg)
  /\ LET c == CW(codeIndexArg)
     IN  IF c < TEXT_COMPACTION_MODE_LATCH
         THEN /\ additionalOptionCodeWords' = PushBack(additionalOptionCodeWords, c)
              /\ codeIndexArg' = codeIndexArg + 1
              /\ UNCHANGED << resultMetadata, end, status, pc >>
         ELSE IF c = MACRO_PDF417_TERMINATOR
         THEN /\ resultMetadata' = [resultMetadata EXCEPT !.lastSegment = TRUE]
              /\ codeIndexArg' = AfterOptionalTerminator(codeIndexArg)
              /\ end' = TRUE
              /\ UNCHANGED << additionalOptionCodeWords, status, pc >>
         ELSE /\ status' = FormatError
              /\ pc' = "fetch"
              /\ UNCHANGED << additionalOptionCodeWords, codeIndexArg, resultMetadata, end >>
  /\ UNCHANGED << inputVars, codeIndex, code, resultString, encoding, result, textVars,
                  count, byteVars, numericCodewords, handBack >>

\* lines 611, 618-619, back in Decode (line 659)
MacroOptReturn ==
  /\ pc = "macroOpt" /\ ~MacroGuard
  /\ resultMetadata' = [resultMetadata EXCEPT !.optionalData = additionalOptionCodeWords]
  /\ codeIndex' = codeIndexArg
  /\ pc' = "fetch"
  /\ UNCHANGED << inputVars, code, status, resultString, encoding, result, codeIndexArg,
                  textVars, count, end, byteVars, otherVars, readIdx, handBack >>

\* ------------------------------------------------------------ specification
Next ==
  \/ Start
  \/ DispatchText \/ DispatchDefault \/ DispatchByte \/ DispatchModeShift
  \/ DispatchNumeric \/ DispatchEciCharset \/ DispatchEciSkip \/ DispatchMacroField
  \/ MacroFail \/ MacroThrow \/ DispatchMacro
  \/ Fetch \/ Finish
  \/ TextData \/ TextLatch \/ TextStop \/ TextModeShift \/ TextOther \/ TextLoopExit
  \/ DecodeTextStep \/ TextReturn \/ TextReturnMacro
  \/ ByteAStep \/ ByteAReturn \/ ByteBStep \/ ByteBReturn
  \/ NumericStep \/ NumericReturn
  \/ MacroOptionalBegin \/ MacroTerminator \/ MacroPlain \/ MacroOptStep \/ MacroOptReturn

Spec == Init /\ [][Next]_vars

\* Decode is one sequential call: while a step is possible, the next one runs
\* the variables of vars, one by one
flatVars ==
  << cw, ecLevel, result, pc, codeIndex, code, status, resultString, encoding, resultMetadata,
     codeIndexArg, caller, textCompactionData, byteCompactionData, subMode, priorToShiftMode, i,
     fileId, count, end, value, nextCode, byteCompactedCodewords, decodedBytes, numericCodewords,
     additionalOptionCodeWords, readIdx, handBack >>

LiveSpec == Init /\ [][Next]_vars /\ WF_flatVars(Next)

\* ------------------------------------------------------------ claims
\* C1: every read of the codeword stream made by Decode and its sub-decoders
\* is at an index strictly below the declared count codewords[0].
C1_ReadsBelowCount == readIdx < Count

\* C2: when the dispatcher loop has finished with an empty accumulated text,
\* Decode returns FormatError.
C2_EmptyTextFails == (pc = "done" /\ resultString = << >>) => status = FormatError

\* C2 witness: a stream of control codewords only went through the loop and
\* ended with no text and FormatError.
C2_Witness ==
  /\ pc = "done" /\ resultString = << >> /\ status = FormatError
  /\ Count >= 4
  /\ \A k \in 1..(Count - 1) : CW(k) >= TEXT_COMPACTION_MODE_LATCH
  /\ CW(1) = TEXT_COMPACTION_MODE_LATCH

\* C3: whenever Decode returns FormatError the caller's DecoderResult is as it
\* was before the call.
C3_FailureLeavesResult == (pc = "done" /\ status = FormatError) => result = NewResult

\* C3 witness: Decode failed after text and macro metadata were accumulated.
C3_Witness ==
  /\ pc = "done" /\ status = FormatError /\ result = NewResult
  /\ resultString # << >>
  /\ resultMetadata # NewExtra

\* C4: once the cursor has reached the declared count with no failure and a
\* non-empty text, the dispatcher does not fail and Decode returns success
\* with that text.
C4_ReachingCountSucceeds ==
  /\ [][(pc = "fetch" /\ codeIndex = Count /\ status = NoError /\ resultString # << >>)
          => status' = NoError]_vars
  /\ [][(pc = "loop" /\ ~LoopGuard /\ status = NoError /\ resultString # << >>)
          => (status' = NoError /\ result'.text = resultString)]_vars

\* C5: when Text, Byte or Numeric compaction stops at a major-mode control
\* codeword it does not own, the cursor it returns is the index of that
\* codeword, and the next control code the dispatcher reads is that codeword.
C5_HandBack ==
  handBack # -1 =>
    /\ handBack < Count
    /\ CW(handBack) \in TextStops \cup ByteStops \cup NumericStops
    /\ pc \in { "text", "decodeText", "macroTail" } =>
         (codeIndexArg = handBack /\ CW(handBack) \in TextStops)
    /\ pc \in { "byteA", "byteB" } => (codeIndexArg = handBack /\ CW(handBack) \in ByteStops)
    /\ pc = "numeric" => (codeIndexArg = handBack /\ CW(handBack) \in NumericStops)
    /\ pc = "fetch" => codeIndex = handBack
    /\ pc \in { "loop", "done" } => (code = CW(handBack) /\ codeIndex = handBack + 1)

\* C5 witness: Numeric compaction stopped at a text latch and the dispatcher
\* has read that latch as its next control code.
C5_Witness ==
  /\ pc = "loop" /\ handBack = 3
  /\ CW(1) = NUMERIC_COMPACTION_MODE_LATCH
  /\ code = TEXT_COMPACTION_MODE_LATCH /\ codeIndex = 4

\* the string DecodeTextCompaction appends to
TextOut == IF caller = "Decode" THEN resultString ELSE fileId

\* the persistent sub-mode in force: in a shift state, the mode to restore
Persistent(m, p) == IF m \in { ALPHA_SHIFT, PUNCT_SHIFT } THEN p ELSE m

\* C6: in Text Compaction a 913 met in any of the six sub-modes consumes
\* exactly one following codeword, appends exactly one byte carrying that
\* codeword's value, and leaves the persistent sub-mode as it was.
C6_ByteEscape ==
  /\ [][(pc = "text" /\ TextGuard /\ CW(codeIndexArg) = MODE_SHIFT_TO_BYTE_COMPACTION_MODE
           /\ codeIndexArg + 1 < Size)
          => /\ codeIndexArg' = codeIndexArg + 2
             /\ textCompactionData' =
                  Append(textCompactionData, MODE_SHIFT_TO_BYTE_COMPACTION_MODE)
             /\ byteCompactionData' = Append(byteCompactionData, CW(codeIndexArg + 1))]_vars
  /\ [][(pc = "decodeText" /\ i < Len(textCompactionData) /\ readIdx < Count
           /\ textCompactionData[i + 1] = MODE_SHIFT_TO_BYTE_COMPACTION_MODE)
          => /\ TextOut' = Append(TextOut, ToChar(byteCompactionData[i + 1]))
             /\ subMode' = Persistent(subMode, priorToShiftMode)]_vars

\* codewords[a .. b]
Slice(a, b) == [k \in 1..(b - a + 1) |-> CW(a + k - 1)]

\* the payload is 902, a group, 902, a group: both groups of 1 to 15 data codewords
InnerLatches == { m \in 2..(Count - 1) : CW(m) = NUMERIC_COMPACTION_MODE_LATCH }
SecondLatch == CHOOSE m \in InnerLatches : TRUE
IsTwoGroups ==
  /\ Count >= 5 /\ Count <= Size
  /\ CW(1) = NUMERIC_COMPACTION_MODE_LATCH
  /\ Cardinality(InnerLatches) = 1
  /\ \A k \in 2..(Count - 1) : k \in InnerLatches \/ CW(k) < TEXT_COMPACTION_MODE_LATCH
  /\ SecondLatch - 2 \in 1..MAX_NUMERIC_CODEWORDS
  /\ Count - 1 - SecondLatch \in 1..MAX_NUMERIC_CODEWORDS
FirstGroup == Slice(2, SecondLatch - 1)
SecondGroup == Slice(SecondLatch + 1, Count - 1)

\* C7: a 902 met inside Numeric Compaction closes the group and starts a new
\* one without error; the text of two adjacent groups is the digits of the
\* first followed by the digits of the second, the 902 contributing nothing.
C7_TwoGroups ==
  (pc = "fetch" /\ IsTwoGroups) =>
    LET d1 == DecodeBase900toBase10(FirstGroup, Len(FirstGroup))
        d2 == DecodeBase900toBase10(SecondGroup, Len(SecondGroup))
    IN  IF StatusIsOK(d1.status) /\ StatusIsOK(d2.status)
        THEN status = NoError /\ codeIndex = Count /\ resultString = d1.str \o d2.str
        ELSE /\ status = FormatError
             /\ resultString = (IF StatusIsOK(d1.status) THEN d1.str ELSE << >>)

\* C7 witness: both groups were decoded to digits and appended.
C7_Witness ==
  /\ pc = "fetch" /\ IsTwoGroups /\ status = NoError
  /\ Len(FirstGroup) >= 2 /\ Len(SecondGroup) >= 2
  /\ Len(resultString) = Len(DecodeBase900toBase10(FirstGroup, Len(FirstGroup)).str)
                           + Len(DecodeBase900toBase10(SecondGroup, Len(SecondGroup)).str)
  /\ Len(resultString) >= 6

\* the value of a sequence of base-900 digits, most significant first, by
\* Horner's rule, and its decimal rendering
RECURSIVE Horner900(_)
Horner900(digits) ==
  IF digits = << >> THEN << >>
  ELSE BigAdd(BigMulInt(Horner900(SubSeq(digits, 1, Len(digits) - 1)), 900),
              BigFromInt(digits[Len(digits)]))
Decimal900(digits) == BigToString(Horner900(digits))

\* the numeric group as it stands once the codeword at the cursor is taken
GroupAtCursor ==
  IF CW(codeIndexArg) < TEXT_COMPACTION_MODE_LATCH
  THEN Append(numericCodewords, CW(codeIndexArg)) ELSE numericCodewords

\* the group ends with the codeword at the cursor: the cap of 15, a 902, a
\* codeword handed back, or the end of the stream
GroupEnds ==
  \/ Len(GroupAtCursor) = MAX_NUMERIC_CODEWORDS
  \/ CW(codeIndexArg) = NUMERIC_COMPACTION_MODE_LATCH
  \/ CW(codeIndexArg) \in NumericStops
  \/ codeIndexArg + 1 = Count

\* "000213298174000"
ExampleDigits == << 48, 48, 48, 50, 49, 51, 50, 57, 56, 49, 55, 52, 48, 48, 48 >>

\* C8: every numeric group, and the macro segment index, is converted as the
\* sum of digits[i]*900^(count-i-1) rendered in decimal; without a leading '1'
\* Decode fails with FormatError, else exactly the leading '1' is stripped and
\* the other digits, leading zeros included, are the result.
C8_Sentinel ==
  /\ [][(pc = "numeric" /\ NumericGuard /\ GroupEnds /\ GroupAtCursor # << >>)
          => IF Head(Decimal900(GroupAtCursor)) = 49
             THEN /\ status' = NoError
                  /\ resultString' = resultString \o Tail(Decimal900(GroupAtCursor))
             ELSE status' = FormatError /\ resultString' = resultString]_vars
  /\ [][(Dispatching /\ code = BEGIN_MACRO_PDF417_CONTROL_BLOCK /\ MacroHasIndex)
          => LET ref == Decimal900(<< CW(codeIndex), CW(codeIndex + 1) >>)
             IN  IF Head(ref) = 49
                 THEN \/ Tail(ref) = << >> /\ pc' = "threw"
                      \/ /\ Tail(ref) # << >> /\ status' = NoError
                         /\ resultMetadata'.segmentIndex = StoI(Tail(ref))
                 ELSE status' = FormatError]_vars
  /\ [][status = FormatError => status' = FormatError]_vars
  /\ []((pc = "fetch" /\ Count = 8 /\ Slice(1, 7) = << NUMERIC_COMPACTION_MODE_LATCH >> \o Example900)
          => resultString = ExampleDigits)

\* C8 witness: the example group has been converted, its leading zeros kept.
C8_Witness ==
  /\ pc = "fetch" /\ status = NoError
  /\ Count = 8 /\ Slice(1, 7) = << NUMERIC_COMPACTION_MODE_LATCH >> \o Example900
  /\ resultString = ExampleDigits

\* the k low bytes of a decimal number, most significant byte first
RECURSIVE LowBytes(_, _)
LowBytes(digits, k) ==
  IF k = 0 THEN << >>
  ELSE LowBytes(LongDiv(digits, 256, 0).q, k - 1) \o << LongDiv(digits, 256, 0).r >>

\* the 6 big-endian bytes of the low 48 bits of the base-900 value of a group
Sextet48(group) ==
  LET v == Horner900(group)
  IN  LowBytes([k \in 1..Len(v) |-> v[Len(v) + 1 - k]], 6)

\* the run behind a leading 901: the codewords from index 2 up to the first
\* codeword of 900 or more, or up to the declared count
RunEnd ==
  CHOOSE k \in 2..Count :
    /\ k = Count \/ CW(k) >= TEXT_COMPACTION_MODE_LATCH
    /\ \A m \in 2..(k - 1) : CW(m) < TEXT_COMPACTION_MODE_LATCH
ByteRun == Slice(2, RunEnd - 1)

\* Decode has just returned from the 901 branch over a run of data codewords
\* ended by the declared count or by a codeword the branch stops at
AfterByteRun ==
  /\ Count >= 3 /\ Count <= Size
  /\ CW(1) = BYTE_COMPACTION_MODE_LATCH
  /\ RunEnd > 2
  /\ RunEnd = Count \/ CW(RunEnd) \in ByteStops
  /\ pc = "fetch" /\ codeIndex = RunEnd

\* the text is full groups of 5 codewords as 6 big-endian bytes each (the low
\* 48 bits of the group's base-900 value), then the other codewords of the
\* run as one byte each
ByteOutputIs(full) ==
  /\ Len(resultString) = 6 * full + (Len(ByteRun) - 5 * full)
  /\ \A g \in 0..(full - 1) :
       SubSeq(resultString, 6 * g + 1, 6 * g + 6)
         = Sextet48(SubSeq(ByteRun, 5 * g + 1, 5 * g + 5))
  /\ \A r \in 1..(Len(ByteRun) - 5 * full) :
       resultString[6 * full + r] = ByteRun[5 * full + r] % 256

\* C9 as stated: every complete group of 5 codewords of a 901 run is emitted
\* as 6 bytes and only a terminal group of fewer than 5 as raw bytes, runs
\* whose length is a multiple of 5 included.
C9_EveryFullGroup == AfterByteRun => ByteOutputIs(Len(ByteRun) \div 5)

\* C9 as amended: a group of 5 is emitted as 6 bytes only when a further data
\* codeword of the run follows it; the last 1 to 5 codewords of the run are
\* emitted as one raw byte each.
C9_LastGroupRaw == AfterByteRun => ByteOutputIs((Len(ByteRun) - 1) \div 5)

\* C9 witness: a run of 10 codewords ended by a latch gave 6 bytes and 5 raw bytes.
C9_Witness ==
  /\ AfterByteRun /\ Len(ByteRun) = 10 /\ RunEnd < Count
  /\ Len(resultString) = 11
  /\ ByteRun[1] # ByteRun[2]

\* C10: the 901 branch never takes a codeword of 900 or more as byte data.
C10_NoControlAsData ==
  pc = "byteA" =>
    \A k \in 1..Len(byteCompactedCodewords) :
      byteCompactedCodewords[k] < TEXT_COMPACTION_MODE_LATCH

\* the stream is 924, then one or more whole groups of 5 data codewords, ended
\* by the declared count or by a codeword the branch stops at
IsSextetRun ==
  /\ Count >= 7 /\ Count <= Size
  /\ CW(1) = BYTE_COMPACTION_MODE_LATCH_6
  /\ RunEnd >= 7 /\ (RunEnd - 2) % 5 = 0
  /\ RunEnd = Count \/ CW(RunEnd) \in ByteStops

\* Decode has just returned from the 924 branch over such a run
AfterSextetRun == IsSextetRun /\ pc = "fetch" /\ codeIndex = RunEnd

SextetGroup(g) == SubSeq(ByteRun, 5 * g + 1, 5 * g + 5)
SextetOut(g) == SubSeq(resultString, 6 * g + 1, 6 * g + 6)

\* C11: behind 924 every group of 5 codewords gives the 6 big-endian bytes of
\* the low 48 bits of its base-900 value, so a sequence of 6k bytes encoded as
\* k groups of 5 codewords decodes to exactly those 6k bytes, in order.
C11_RoundTrip ==
  AfterSextetRun =>
    /\ Len(resultString) = 6 * (Len(ByteRun) \div 5)
    /\ \A g \in 0..(Len(ByteRun) \div 5 - 1) :
         /\ SextetOut(g) = Sextet48(SextetGroup(g))
         /\ \A b \in SextetSamples : Encode6(b) = SextetGroup(g) => SextetOut(g) = b

\* C11 witness: twelve bytes encoded as two groups came back unchanged.
C11_Witness ==
  /\ AfterSextetRun /\ Len(ByteRun) = 10
  /\ SextetGroup(0) = Encode6(<< 65, 66, 67, 68, 69, 70 >>)
  /\ SextetGroup(1) = Encode6(<< 255, 255, 255, 255, 255, 255 >>)
  /\ resultString = << 65, 66, 67, 68, 69, 70, 255, 255, 255, 255, 255, 255 >>

\* C12: the encoding starts as ISO-8859-1 and changes only when the dispatcher
\* processes 927, to the charset the next codeword names; 926 and 925 skip
\* exactly 2 and 1 codewords, append no text and keep the encoding.
C12_EncodingFrame ==
  /\ [](pc = "start" => encoding = DEFAULT_ENCODING)
  /\ [][encoding' # encoding => (Dispatching /\ code = ECI_CHARSET)]_vars
  /\ [][(Dispatching /\ code = ECI_CHARSET)
          => /\ encoding' = CharsetFromValue(CW(codeIndex))
             /\ codeIndex' = codeIndex + 1
             /\ resultString' = resultString /\ status' = status]_vars
  /\ [][(Dispatching /\ code = ECI_GENERAL_PURPOSE)
          => /\ codeIndex' = codeIndex + 2
             /\ resultString' = resultString /\ encoding' = encoding /\ status' = status]_vars
  /\ [][(Dispatching /\ code = ECI_USER_DEFINED)
          => /\ codeIndex' = codeIndex + 1
             /\ resultString' = resultString /\ encoding' = encoding /\ status' = status]_vars

\* C12 witness: the charset set by 927 was still in force when a later byte
\* run was transcoded.
C12_Witness ==
  /\ pc = "done" /\ Count >= 5 /\ Count <= Size
  /\ CW(1) = ECI_CHARSET /\ CW(2) = 26 /\ CW(3) = BYTE_COMPACTION_MODE_LATCH /\ CW(4) = 65
  /\ encoding = CharsetFromValue(26) /\ encoding # DEFAULT_ENCODING
  /\ resultString # << >> /\ resultString[1] = 256 * encoding + 65

\* the first codeword is a data codeword whose high symbol is a letter of Alpha
LeadingLetter ==
  /\ Count >= 2 /\ Count <= Size
  /\ CW(1) \notin KnownCodes /\ CW(1) < TEXT_COMPACTION_MODE_LATCH
  /\ CW(1) \div 30 < 26

\* C13: an unrecognised codewords[1] is an implicit Text Compaction start: the
\* cursor is rewound by one and codewords[1] is decoded as the first text
\* codeword in Alpha, with no error, for every declared count of 2 or more.
C13_ImplicitText ==
  /\ [][(pc = "loop" /\ codeIndex = 2 /\ status = NoError /\ resultString = << >>
           /\ Count >= 2 /\ code \notin KnownCodes)
          => (pc' = "text" /\ codeIndexArg' = 1 /\ status' = NoError)]_vars
  /\ []((pc = "done" /\ LeadingLetter)
          => (resultString # << >> /\ resultString[1] = 65 + CW(1) \div 30))

\* no Macro-begin codeword anywhere in the stream
NoMacroBegin == \A k \in 1..(Size - 1) : CW(k) # BEGIN_MACRO_PDF417_CONTROL_BLOCK

\* C14: a successful Decode of a stream that holds no 928 returns a result
\* without Macro Metadata.
C14_ExtraOnlyWithMacro ==
  (pc = "done" /\ StatusIsOK(status) /\ NoMacroBegin) => result.extra = << >>

\* a text codeword of two letters of Alpha, or of a letter and the padding ps
LetterCodeword(c) == c \div 30 < 26 /\ (c % 30 < 26 \/ c % 30 = PS)

\* the text of such codewords in Alpha
RECURSIVE AlphaText(_)
AlphaText(cs) ==
  IF cs = << >> THEN << >>
  ELSE << 65 + Head(cs) \div 30 >>
         \o (IF Head(cs) % 30 < 26 THEN << 65 + (Head(cs) % 30) >> ELSE << >>)
         \o AlphaText(Tail(cs))

\* a macro block at index first: 928, a segment index with its sentinel, a
\* file id of letter codewords (padding only in the last), the terminator at
\* index last
MacroBlockAt(first, last) ==
  /\ first >= 1 /\ last >= first + 4 /\ last < Count /\ Count <= Size
  /\ CW(first) = BEGIN_MACRO_PDF417_CONTROL_BLOCK
  /\ CW(last) = MACRO_PDF417_TERMINATOR
  /\ Head(Decimal900(<< CW(first + 1), CW(first + 2) >>)) = 49
  /\ Len(Decimal900(<< CW(first + 1), CW(first + 2) >>)) >= 2
  /\ \A k \in (first + 3)..(last - 1) : CW(k) < TEXT_COMPACTION_MODE_LATCH /\ LetterCodeword(CW(k))
  /\ \A k \in (first + 3)..(last - 2) : CW(k) % 30 < 26

\* the metadata the block encodes
MacroBlockMeta(first, last) ==
  [segmentIndex |-> StoI(Tail(Decimal900(<< CW(first + 1), CW(first + 2) >>))),
   fileId |-> AlphaText(Slice(first + 3, last - 1)),
   lastSegment |-> TRUE, optionalData |-> << >>]

\* the payload is exactly one macro block, with a codeword behind the count
IsMacroOnly == Count >= 6 /\ Count < Size /\ MacroBlockAt(1, Count - 1)

\* C15: a stream whose payload is 928, a segment index k, a file id F and the
\* terminator 922 yields a result whose Macro Metadata is k, F, last segment.
C15_MacroResult ==
  (pc = "done" /\ IsMacroOnly) => result.extra = << MacroBlockMeta(1, Count - 1) >>

\* the first index from k on that holds a codeword of 900 or more, or the count
FirstControl(k) ==
  CHOOSE m \in k..Count :
    /\ m = Count \/ CW(m) >= TEXT_COMPACTION_MODE_LATCH
    /\ \A j \in k..(m - 1) : CW(j) < TEXT_COMPACTION_MODE_LATCH

\* the stream is one macro block whose file id is followed by 923, and the
\* optional-field run is ended by a control codeword before the count
OptMarker == FirstControl(4)
OptEnd == FirstControl(OptMarker + 1)
IsOptionalRun ==
  /\ Count >= 6 /\ Count <= Size
  /\ CW(1) = BEGIN_MACRO_PDF417_CONTROL_BLOCK
  /\ \A k \in 2..(Size - 1) : CW(k) # BEGIN_MACRO_PDF417_CONTROL_BLOCK
  /\ Head(Decimal900(<< CW(2), CW(3) >>)) = 49 /\ Len(Decimal900(<< CW(2), CW(3) >>)) >= 2
  /\ OptMarker < Count - 1 /\ CW(OptMarker) = BEGIN_MACRO_PDF417_OPTIONAL_FIELD
  /\ OptEnd < Count

\* C16: behind 923 every codeword below 900 is appended in stream order to the
\* optional fields until 922, which sets the last-segment flag and ends the
\* loop; any other codeword of 900 or more makes Decode fail with FormatError.
C16_OptionalFields ==
  /\ [][(pc = "macroOpt" /\ MacroGuard)
          => IF CW(codeIndexArg) < TEXT_COMPACTION_MODE_LATCH
             THEN /\ additionalOptionCodeWords'
                       = additionalOptionCodeWords \o << CW(codeIndexArg) >>
                  /\ pc' = "macroOpt" /\ end' = end /\ status' = status
                  /\ resultMetadata' = resultMetadata
             ELSE IF CW(codeIndexArg) = MACRO_PDF417_TERMINATOR
             THEN /\ resultMetadata'.lastSegment /\ end' /\ status' = status
                  /\ additionalOptionCodeWords' = additionalOptionCodeWords
             ELSE status' = FormatError]_vars
  /\ [][(pc = "macroOpt" /\ end) => (pc' = "fetch" /\ status' = status
           /\ resultMetadata'.optionalData = additionalOptionCodeWords)]_vars
  /\ []((pc = "done" /\ IsOptionalRun)
          => IF CW(OptEnd) = MACRO_PDF417_TERMINATOR
             THEN /\ resultMetadata.optionalData = Slice(OptMarker + 1, OptEnd - 1)
                  /\ resultMetadata.lastSegment
             ELSE status = FormatError)

\* C16 witness: two optional-field codewords were collected in order and the
\* terminator set the last-segment flag.
C16_Witness ==
  /\ pc = "done" /\ IsOptionalRun /\ CW(OptEnd) = MACRO_PDF417_TERMINATOR
  /\ resultMetadata.optionalData = << 5, 3 >>
  /\ resultMetadata.lastSegment

\* the markers DecodeMacroBlock looks for behind the file id
MacroMarkers == { BEGIN_MACRO_PDF417_OPTIONAL_FIELD, MACRO_PDF417_TERMINATOR }

\* C17: when the codeword at the cursor behind the file id is neither 923 nor
\* 922, DecodeMacroBlock returns without error with the cursor at that
\* codeword, the last-segment flag and the optional fields as they were, and
\* the dispatcher reads that codeword as its next control code.
C17_PlainReturn ==
  /\ [][(pc = "macroTail" /\ codeIndexArg < Size /\ CW(codeIndexArg) \notin MacroMarkers)
          => /\ pc' = "fetch" /\ codeIndex' = codeIndexArg
             /\ status' = NoError
             /\ resultMetadata' = resultMetadata]_vars
  /\ [][(pc = "fetch" /\ caller = "DecodeMacroBlock" /\ status = NoError /\ codeIndex < Size)
          => (code' = CW(codeIndex) /\ codeIndex' = codeIndex + 1 /\ status' = NoError)]_vars

\* C17 witness: the file id was ended by a byte latch and the block returned
\* with the cursor on it.
C17_Witness ==
  /\ pc = "fetch" /\ caller = "DecodeMacroBlock" /\ status = NoError
  /\ Count >= 7 /\ Count <= Size
  /\ CW(1) = BEGIN_MACRO_PDF417_CONTROL_BLOCK /\ CW(5) = BYTE_COMPACTION_MODE_LATCH
  /\ codeIndex = 5
  /\ resultMetadata.fileId = << 65, 66 >> /\ ~resultMetadata.lastSegment

\* the steps at which a failure can arise: the text is empty at completion
CauseEmptyText == pc = "loop" /\ ~LoopGuard /\ resultString = << >>

\* a numeric group, or the macro segment index, lacks the leading '1'
CauseNoSentinel ==
  \/ /\ pc = "numeric" /\ NumericGuard /\ GroupEnds /\ GroupAtCursor # << >>
     /\ Head(Decimal900(GroupAtCursor)) # 49
  \/ /\ Dispatching /\ code = BEGIN_MACRO_PDF417_CONTROL_BLOCK /\ MacroHasIndex
     /\ Head(Decimal900(<< CW(codeIndex), CW(codeIndex + 1) >>)) # 49

\* a macro block with fewer than 2 codewords left for its segment index
CauseShortMacro ==
  Dispatching /\ code = BEGIN_MACRO_PDF417_CONTROL_BLOCK /\ codeIndex + 2 > Count

\* a control codeword other than the terminator inside the optional-field loop
CauseOptionalControl ==
  /\ pc = "macroOpt" /\ MacroGuard
  /\ CW(codeIndexArg) >= TEXT_COMPACTION_MODE_LATCH
  /\ CW(codeIndexArg) # MACRO_PDF417_TERMINATOR

\* the dispatcher expects a codeword with the cursor at or past the declared count
CausePastCount == pc = "fetch" /\ codeIndex >= Count

\* the dispatcher expects a codeword with the cursor at or past the end of the vector
CausePastEnd == pc = "fetch" /\ codeIndex >= Size

\* the dispatcher meets 923 or 922 outside a macro block
CauseStrayMarker == Dispatching /\ code \in MacroMarkers

PersistentModes == { ALPHA, LOWER, MIXED, PUNCT }
ShiftModes == { ALPHA_SHIFT, PUNCT_SHIFT }

\* the symbol DecodeTextCompaction is about to interpret
SymbolAtI == textCompactionData[i + 1]

\* the character a shift state gives for a symbol (none: << >>)
ShiftChar(m, sym) ==
  IF m = PUNCT_SHIFT /\ sym < 29 THEN << PUNCT_CHARS[sym + 1] >>
  ELSE IF m = ALPHA_SHIFT /\ sym < 26 THEN << 65 + sym >>
  ELSE IF m = ALPHA_SHIFT /\ sym = 26 THEN << 32 >>
  ELSE << >>

\* C19: a shift symbol (29 in Alpha, Lower or Mixed; 27 in Lower) puts exactly
\* the next symbol in PunctShift or AlphaShift; after that symbol the sub-mode
\* is the persistent mode in which the shift was taken, or Alpha when the
\* symbol is 900 or, in PunctShift, 29; no two consecutive symbols are
\* interpreted in a shift state.
C19_OneShotShift ==
  /\ [][(pc = "decodeText" /\ i < Len(textCompactionData) /\ subMode \in PersistentModes)
          => /\ (subMode \in { ALPHA, LOWER, MIXED } /\ SymbolAtI = 29)
                  => (subMode' = PUNCT_SHIFT /\ priorToShiftMode' = subMode)
             /\ (subMode = LOWER /\ SymbolAtI = 27)
                  => (subMode' = ALPHA_SHIFT /\ priorToShiftMode' = subMode)
             /\ subMode' \in ShiftModes
                  => (SymbolAtI = 29 \/ (subMode = LOWER /\ SymbolAtI = 27))]_vars
  /\ [][(pc = "decodeText" /\ i < Len(textCompactionData) /\ subMode \in ShiftModes)
          => /\ subMode' =
                  (IF SymbolAtI = TEXT_COMPACTION_MODE_LATCH
                      \/ (subMode = PUNCT_SHIFT /\ SymbolAtI = 29)
                   THEN ALPHA ELSE priorToShiftMode)
             /\ subMode' \in { ALPHA, LOWER, MIXED }
             /\ SymbolAtI < 29 => TextOut' = TextOut \o ShiftChar(subMode, SymbolAtI)]_vars
  /\ [](subMode \in ShiftModes => priorToShiftMode \in { ALPHA, LOWER, MIXED })

\* C19 witness: in Lower, ps then a symbol gave one punctuation character and
\* the machine is back in Lower.
C19_Witness ==
  /\ pc = "decodeText" /\ i = 5
  /\ SubSeq(textCompactionData, 1, 5) = << 0, 27, 0, 29, 10 >>
  /\ subMode = LOWER
  /\ TextOut = << 65, 97, PUNCT_CHARS[11] >>

\* C20: in Text Compaction 900 is consumed, not handed back; it appends no
\* character and sets the sub-mode to Alpha from each of the six sub-modes;
\* every invocation of Text Compaction starts in Alpha.
C20_TextLatch ==
  /\ [][(pc = "text" /\ TextGuard /\ CW(codeIndexArg) = TEXT_COMPACTION_MODE_LATCH)
          => /\ codeIndexArg' = codeIndexArg + 1
             /\ pc' = "text" /\ end' = end /\ handBack' = handBack
             /\ textCompactionData' = textCompactionData \o << TEXT_COMPACTION_MODE_LATCH >>
             /\ TextOut' = TextOut]_vars
  /\ [][(pc = "decodeText" /\ i < Len(textCompactionData)
           /\ SymbolAtI = TEXT_COMPACTION_MODE_LATCH)
          => (subMode' = ALPHA /\ TextOut' = TextOut)]_vars
  /\ []((pc = "decodeText" /\ i = 0) => subMode = ALPHA)
  /\ []((pc = "done" /\ Count = 7 /\ Count <= Size
           /\ Slice(1, 6) = << TEXT_COMPACTION_MODE_LATCH, 27, BYTE_COMPACTION_MODE_LATCH, 65,
                                TEXT_COMPACTION_MODE_LATCH, 1 >>)
          => resultString = << 65, 65, 65, 66 >>)

\* C20 witness: a latch met in AlphaShift, taken from Lower, left the machine
\* in Alpha, and the next codeword gave capitals.
C20_Witness ==
  /\ pc = "decodeText" /\ i = 5
  /\ textCompactionData = << 27, 27, TEXT_COMPACTION_MODE_LATCH, 10, 0 >>
  /\ subMode = ALPHA
  /\ TextOut = << 75, 65 >>

\* C21: both terminator paths of DecodeMacroBlock return the index right after
\* the 922: when 922 is at the cursor behind the file id, and when 922 ends an
\* optional-field run opened by 923; the dispatcher then reads the codeword
\* that follows the terminator.
C21_SameCursor ==
  /\ [][(pc = "macroTail" /\ codeIndexArg < Size
           /\ CW(codeIndexArg) = MACRO_PDF417_TERMINATOR)
          => (pc' = "fetch" /\ status' = status /\ codeIndex' = codeIndexArg + 1)]_vars
  /\ [][(pc = "macroOpt" /\ pc' = "fetch" /\ status' = NoError
           /\ IsOptionalRun /\ CW(OptEnd) = MACRO_PDF417_TERMINATOR)
          => codeIndex' = OptEnd + 1]_vars
  /\ [][(pc = "fetch" /\ status = NoError /\ end /\ codeIndexArg = codeIndex
           /\ IsOptionalRun /\ CW(OptEnd) = MACRO_PDF417_TERMINATOR /\ OptEnd + 1 < Size)
          => code' = CW(OptEnd + 1)]_vars

\* the call is over: it returned, std::stoi threw, or a read past the vector
\* killed the process
Terminated == pc \in { "done", "threw", "crashed" }

\* the loops of the sub-decoders that read the codeword stream
CodewordLoops == { "text", "byteA", "byteB", "numeric", "macroOpt" }

\* Decode's cursor when the running iteration of the dispatcher loop began
\* (the default case has stepped it back by one before TextCompaction runs)
IterStart ==
  IF pc \in { "text", "decodeText" } /\ caller = "Decode" /\ code \notin KnownCodes
  THEN codeIndex + 1 ELSE codeIndex

\* an iteration of the dispatcher loop ends with a failure status or with the
\* cursor beyond where it began: the dispatch leaves it at or beyond the
\* start, the fetch of the next control code steps over one codeword or fails
IterationAdvances ==
  /\ [][(pc \notin { "start", "fetch" } /\ pc' = "fetch")
          => (status' # NoError \/ codeIndex' >= IterStart)]_vars
  /\ [][pc = "fetch"
          => (pc' = "loop" /\ (status' # NoError \/ codeIndex' = codeIndex + 1))]_vars

\* C22 as stated: Decode ends on every stream, every iteration of the
\* dispatcher loop fails or advances the cursor, and every pass of a
\* sub-decoder loop leaves the cursor at least one codeword further.
C22_EveryPassConsumes ==
  /\ <>Terminated
  /\ IterationAdvances
  /\ [][(pc \in CodewordLoops /\ pc' = pc) => codeIndexArg' > codeIndexArg]_vars

\* C22: Decode ends on every stream; every iteration of the dispatcher loop
\* fails or advances the cursor; every pass of a sub-decoder loop advances the
\* cursor, or hands the codeword it read back and ends the loop, or fails; at
\* the return the status is a failure or the cursor is at or past the count.
C22_Terminates ==
  /\ <>Terminated
  /\ IterationAdvances
  /\ [][(pc \in CodewordLoops /\ (pc' = pc \/ status' # status))
          => \/ codeIndexArg' > codeIndexArg
             \/ codeIndexArg' = codeIndexArg /\ ~end /\ end' /\ handBack' = codeIndexArg
             \/ status' = FormatError /\ pc' = "fetch"]_vars
  /\ [](pc = "done" => (status = FormatError \/ codeIndex >= Count))

\* C22 witness: three iterations of the dispatcher loop (a text run, a byte
\* run, a text run), two of them ended by a codeword handed back, and the
\* call returned with the cursor at the count.
C22_Witness ==
  /\ pc = "done" /\ status = NoError
  /\ Count = 7 /\ Count < Size
  /\ Slice(1, 6) = << TEXT_COMPACTION_MODE_LATCH, 27, BYTE_COMPACTION_MODE_LATCH, 65,
                       TEXT_COMPACTION_MODE_LATCH, 1 >>
  /\ codeIndex >= Count

====
